---- MODULE Spec2Model ----
(***************************************************************************)
(* Model of the interest request pipeline:                                 *)
(*   - Processor (src/interest/processor/processor.py): the middleware     *)
(*     list and the four phase coroutines driven over it;                  *)
(*   - Chain (src/interest/helpers/chain.py): ordered, named registry      *)
(*     with a listener.                                                    *)
(* The phase coroutines run on one event loop: a call owns the thread     *)
(* from the moment it is started or resumed until the hook it awaits      *)
(* suspends, or until it finishes.                                         *)
(***************************************************************************)
EXTENDS Integers, Sequences, FiniteSets, TLC

VARIABLES
    middlewares,   \* Processor.__middlewares
    calls,         \* the phase coroutines of the Processor that are in flight
    chain,         \* Chain.__list
    listenerLog,   \* what Chain.__listener saw, one entry per invocation
    addCalls,      \* number of Chain.add calls made so far
    lastOp,        \* the latest operation on the Chain and its outcome
    lastAdd,       \* the latest Processor.add_middleware call and its arguments
    handler,       \* a Middleware.process / Middleware.next coroutine
    system,        \* a SystemMiddleware object and what was done with it
    binding,       \* a Binding object
    methodsList    \* the list object Binding.methods refers to

vars == <<middlewares, calls, chain, listenerLog, addCalls, lastOp, lastAdd,
          handler, system, binding, methodsList>>
processorVars == <<middlewares, calls>>
chainVars == <<chain, listenerLog, addCalls, lastOp>>
registerVars == <<lastAdd>>
middlewareVars == <<handler, system>>
bindingVars == <<binding, methodsList>>
\* What the phase calls, the Chain operations, the Middleware coroutines and
\* the Binding operations leave alone.
nonProcessorVars == <<chainVars, registerVars, middlewareVars, bindingVars>>
nonChainVars == <<processorVars, registerVars, middlewareVars, bindingVars>>
nonMiddlewareVars == <<processorVars, chainVars, registerVars, bindingVars>>
nonBindingVars == <<processorVars, chainVars, registerVars, middlewareVars>>

----------------------------------------------------------------------------
(* Bounds *)

\* Longest middleware list, number of phase calls, most adds to the chain.
MaxMiddlewares == 2
MaxCalls == 2
MaxChainLen == 3
MaxMethods == 2

----------------------------------------------------------------------------
(* Values *)

\* Values that travel through a phase: what they are (a request, a plain
\* payload, an aiohttp.web.Response, an exception) and the hooks they went
\* through (the positions of the middlewares, in the order they touched it).
Kinds == {"request", "data", "response", "exception"}
Value(kind, log) == [kind |-> kind, log |-> log]
None == Value("none", <<>>)
Pending == Value("pending", <<>>)
Raised == Value("raised", <<>>)
TheRequest == Value("request", <<>>)

\* isinstance(reply, Response)
IsResponse(v) == v.kind = "response"

HookNames == {"process_request", "process_data", "process_response", "process_exception"}

\* Middleware subclasses and the hooks each of them defines.
Classes == {"Outer", "Inner"}
ClassHooks(t) ==
    CASE t = "Outer" -> {"process_request", "process_response"}
      [] t = "Inner" -> {"process_data", "process_exception"}

\* middleware(self.service): an instance of class t bound to the service
Service == "service"
NewMiddleware(t) == [cls |-> t, service |-> Service]

\* hasattr(middleware, hook)
\* Faulty variant: the hook is taken to be there.
HasAttrAlways(m, hook) == TRUE
HasAttr(m, hook) == hook \in ClassHooks(m.cls)

----------------------------------------------------------------------------
(* Iteration over self.middlewares *)

\* Index of the first element a list iterator yields (1-based).
IterStart(mws) == 1
\* Index of the first element reversed(list) yields.
\* Faulty variant: the reverse iteration starts at the front.
ReversedStartFront(mws) == 1
ReversedStart(mws) == Len(mws)

\* A list iterator at index i still has an element to yield.
IterHasNext(mws, i) == i >= 1 /\ i <= Len(mws)
\* The index after yielding element i.
IterAdvance(i) == i + 1
\* Faulty variant: the reverse iteration steps forward.
ReversedAdvanceForward(i) == i + 1
ReversedAdvance(i) == i - 1

----------------------------------------------------------------------------
(* Phase calls *)

Calls == 1 .. MaxCalls

Phases == {"process_request", "process_reply", "process_response", "process_exception"}

\* The hook a phase looks for on each middleware.
PhaseHook(phase) ==
    CASE phase = "process_request" -> "process_request"
      [] phase = "process_reply" -> "process_data"
      [] phase = "process_response" -> "process_response"
      [] phase = "process_exception" -> "process_exception"

IdleCall ==
    [pc |-> "idle", phase |-> "none", i |-> 0, request |-> None, value |-> None,
     inRequest |-> None, inValue |-> None, cur |-> 0,
     result |-> "none", error |-> "none", ret |-> None,
     trace |-> <<>>, mws0 |-> <<>>]

\* A new call takes the first free slot.
CanStart(c) ==
    /\ calls[c].pc = "idle"
    /\ \A d \in Calls : d < c => calls[d].pc # "idle"

\* The thread of the event loop is owned by the call that is executing
\* processor code, running (not suspended in) a hook, or handing its outcome
\* to its caller.
ThreadFree == \A c \in Calls : calls[c].pc \notin {"loop", "hook", "done"}

\* The value a phase carries from hook to hook.
Carried(call) == IF call.phase = "process_request" THEN call.request ELSE call.value

\* Arguments a hook is invoked with.
\* Faulty variant: every hook is given the carried value alone.
HookArgsSingle(call) == <<Carried(call)>>
HookArgs(call) ==
    IF call.phase = "process_request" THEN <<call.request>>
    ELSE <<call.request, call.value>>

\* Entering a phase coroutine.
StartCall(phase, request, value, start) ==
    [IdleCall EXCEPT !.pc = "loop", !.phase = phase, !.i = start,
                     !.request = request, !.value = value,
                     !.inRequest = request, !.inValue = value,
                     !.mws0 = middlewares]

\* `yield from middleware.hook(...)`: the hook of the middleware at pos starts.
InvokeHook(call, pos, next) ==
    [call EXCEPT !.pc = "hook", !.i = next, !.cur = pos,
                 !.trace = Append(@, [pos |-> pos, cls |-> middlewares[pos].cls,
                                      hook |-> PhaseHook(call.phase),
                                      args |-> HookArgs(call), out |-> Pending])]

\* The middleware has no such hook: on to the next one.
SkipMiddleware(call, next) == [call EXCEPT !.i = next]

\* `return x`
Return(call, x) == [call EXCEPT !.pc = "done", !.result = "returned", !.ret = x]

\* `raise TypeError(...)`
Raise(call, err) == [call EXCEPT !.pc = "done", !.result = "raised", !.error = err]

\* The position in the trace of the hook invocation that is in progress.
CurEntry(call) == CHOOSE k \in 1 .. Len(call.trace) : call.trace[k].pos = call.cur

\* The awaited hook returned v: the assignment `x = yield from ...`.
\* Faulty variant: the value the hook returned is dropped.
ResumeDropValue(call, v) ==
    [call EXCEPT !.pc = "loop", !.trace[CurEntry(call)].out = v]
ResumeWithValue(call, v) ==
    IF call.phase = "process_request"
    THEN [call EXCEPT !.pc = "loop", !.request = v, !.trace[CurEntry(call)].out = v]
    ELSE [call EXCEPT !.pc = "loop", !.value = v, !.trace[CurEntry(call)].out = v]

\* The awaited hook raised: nothing in the phase catches it.
\* Faulty variant: the error is swallowed and the loop goes on.
PropagateSwallow(call) ==
    [call EXCEPT !.pc = "loop", !.trace[CurEntry(call)].out = Raised]
Propagate(call) ==
    [Raise(call, "HookError") EXCEPT !.trace[CurEntry(call)].out = Raised]

\* A phase coroutine executes its loop only when it is not waiting for a hook.
\* Faulty variant: the loop goes on while the hook is suspended.
LoopReadyNoAwait(call) == call.pc \in {"loop", "suspended"}
LoopReady(call) == call.pc = "loop"

----------------------------------------------------------------------------
(* Chain *)

\* Elements of a chain: objects with a name; id tells apart objects that
\* carry the same name.
Names == {"a", "b"}
Element(name, id) == [name |-> name, id |-> id]
NoElement == Element("", 0)

\* Outcome of an operation: a value, a number, or a raised error.
Result(kind, value, num, arg, items) ==
    [kind |-> kind, value |-> value, num |-> num, arg |-> arg, items |-> items]
Returned(value) == Result("value", value, 0, "", <<>>)
ReturnedNum(n) == Result("number", NoElement, n, "", <<>>)
ReturnedItems(items) == Result("items", NoElement, 0, "", items)
ReturnedNone == Result("none", NoElement, 0, "", <<>>)
KeyError(key) == Result("KeyError", NoElement, 0, key, <<>>)
IndexError == Result("IndexError", NoElement, 0, "", <<>>)

Op(op, key, hasPlace, place, value, result, before) ==
    [op |-> op, key |-> key, hasPlace |-> hasPlace, place |-> place, value |-> value,
     result |-> result, before |-> before]
NoOp == Op("none", "", FALSE, 0, NoElement, ReturnedNone, <<>>)

\* list.insert(place, value): a negative place counts from the end, and a
\* place beyond either end is moved to that end.  Returns the 0-based index
\* the value lands at.
InsertIndex(list, place) ==
    LET n == Len(list)
        p == IF place < 0 THEN place + n ELSE place
    IN  IF p < 0 THEN 0 ELSE IF p > n THEN n ELSE p

InsertAt(list, k, value) ==
    [j \in 1 .. Len(list) + 1 |->
        IF j <= k THEN list[j] ELSE IF j = k + 1 THEN value ELSE list[j - 1]]

ListInsert(list, place, value) == InsertAt(list, InsertIndex(list, place), value)

\* The mutation of Chain.add: append when place is None, insert otherwise.
\* Faulty variant: place is ignored.
ChainPutAlwaysAppend(list, value, hasPlace, place) == Append(list, value)
ChainPut(list, value, hasPlace, place) ==
    IF ~hasPlace THEN Append(list, value) ELSE ListInsert(list, place, value)

\* Chain.add: the mutation, then self.__listener(), which sees the chain as
\* it is when it is called.
\* Faulty variant: the listener is called before the mutation.
ChainAddNotifyFirst(list, log, value, hasPlace, place) ==
    [list |-> ChainPut(list, value, hasPlace, place), log |-> Append(log, list)]
ChainAdd(list, log, value, hasPlace, place) ==
    LET new == ChainPut(list, value, hasPlace, place)
    IN  [list |-> new, log |-> Append(log, new)]

\* Chain.__getitem__ with an int: self.__list[param]
GetByIndex(list, index) ==
    LET n == Len(list)
        k == IF index < 0 THEN index + n ELSE index
    IN  IF k < 0 \/ k >= n THEN IndexError ELSE Returned(list[k + 1])

\* Chain.__getitem__ with a name: the scan over self.__list
\* Faulty variant: the scan keeps the last match.
RECURSIVE ScanLast(_, _, _)
ScanLast(list, key, found) ==
    IF list = <<>> THEN found
    ELSE ScanLast(Tail(list), key,
                  IF Head(list).name = key THEN Returned(Head(list)) ELSE found)
GetByNameLast(list, key) == ScanLast(list, key, KeyError(key))

RECURSIVE GetByName(_, _)
GetByName(list, key) ==
    IF list = <<>> THEN KeyError(key)
    ELSE IF Head(list).name = key THEN Returned(Head(list))
    ELSE GetByName(Tail(list), key)

Keys == Names \cup {"c"}
Places == (0 - (MaxChainLen + 1)) .. (MaxChainLen + 1)

Add ==
    /\ addCalls < MaxChainLen
    /\ \E name \in Names, hasPlace \in BOOLEAN, place \in Places :
         /\ hasPlace \/ place = 0
         /\ LET value == Element(name, addCalls + 1)
                after == ChainAdd(chain, listenerLog, value, hasPlace, place)
            IN  /\ chain' = after.list
                /\ listenerLog' = after.log
                /\ lastOp' = Op("add", "", hasPlace, place, value, ReturnedNone, chain)
    /\ addCalls' = addCalls + 1
    /\ UNCHANGED nonChainVars

GetItemInt ==
    /\ \E index \in Places :
         lastOp' = Op("getitem_int", "", FALSE, index, NoElement,
                      GetByIndex(chain, index), chain)
    /\ UNCHANGED <<chain, listenerLog, addCalls, nonChainVars>>

GetItemName ==
    /\ \E key \in Keys :
         lastOp' = Op("getitem_name", key, FALSE, 0, NoElement, GetByName(chain, key), chain)
    /\ UNCHANGED <<chain, listenerLog, addCalls, nonChainVars>>

\* Chain.__len__ and Chain.__bool__
ChainLen ==
    /\ lastOp' = Op("len", "", FALSE, 0, NoElement, ReturnedNum(Len(chain)), chain)
    /\ UNCHANGED <<chain, listenerLog, addCalls, nonChainVars>>

ChainBool ==
    /\ lastOp' = Op("bool", "", FALSE, 0, NoElement,
                    ReturnedNum(IF chain # <<>> THEN 1 ELSE 0), chain)
    /\ UNCHANGED <<chain, listenerLog, addCalls, nonChainVars>>

\* Chain.__iter__: the elements in stored order
ChainIter ==
    /\ lastOp' = Op("iter", "", FALSE, 0, NoElement, ReturnedItems(chain), chain)
    /\ UNCHANGED <<chain, listenerLog, addCalls, nonChainVars>>

NextChain ==
    \/ Add
    \/ GetItemInt
    \/ GetItemName
    \/ ChainLen
    \/ ChainBool
    \/ ChainIter

----------------------------------------------------------------------------
(* Record of an add_middleware call *)

AddRecord(types, hasSource, attrs, before) ==
    [called |-> TRUE, types |-> types, hasSource |-> hasSource, attrs |-> attrs,
     before |-> before]
NoAdd == [called |-> FALSE, types |-> <<>>, hasSource |-> FALSE, attrs |-> <<>>,
          before |-> <<>>]

----------------------------------------------------------------------------
(* Middleware.process and Middleware.next *)

\* Requests, what service.route(request) may return (a route with its
\* responder and match arguments) and what a responder may return.
Requests == {"GET /a", "GET /b"}
Responders == {"respA", "respB"}
Matches == {"{}", "{id: 1}"}
Route(responder, match) == [responder |-> responder, match |-> match]
NoRoute == Route("none", "none")
Routes == {Route(r, m) : r \in Responders, m \in Matches}
Replies == {"reply1", "reply2"}

IdleHandler ==
    [pc |-> "idle", entry |-> "none", request |-> "none", route |-> NoRoute,
     routeCalls |-> <<>>, responderCalls |-> <<>>, responderOut |-> "none",
     result |-> "none", error |-> "none", reply |-> "none"]

\* route = yield from self.service.route(request)
CallRoute(h, entry, request) ==
    [h EXCEPT !.pc = "routing", !.entry = entry, !.request = request,
              !.routeCalls = Append(@, request)]

\* Middleware.next(request)
MiddlewareNextStart(h, request) == CallRoute(h, "next", request)

\* Middleware.process(request): return (yield from self.next(request))
MiddlewareProcessStart(h, request) ==
    [MiddlewareNextStart(h, request) EXCEPT !.entry = "process"]

\* reply = yield from route.responder(request, **route.match)
\* Faulty variant: the match arguments are not passed on.
InvokeResponderNoMatch(h, route) ==
    [h EXCEPT !.pc = "responding", !.route = route,
              !.responderCalls = Append(@, [responder |-> route.responder,
                                            request |-> h.request, match |-> "{}"])]
InvokeResponder(h, route) ==
    [h EXCEPT !.pc = "responding", !.route = route,
              !.responderCalls = Append(@, [responder |-> route.responder,
                                            request |-> h.request,
                                            match |-> route.match])]

\* return reply
HandlerReturn(h, reply) ==
    [h EXCEPT !.pc = "done", !.result = "returned", !.reply = reply,
              !.responderOut = reply]

\* An error raised by route or by the responder is not caught.
HandlerRaise(h, error) == [h EXCEPT !.pc = "done", !.result = "raised", !.error = error]

MiddlewareProcess ==
    /\ handler.pc = "idle"
    /\ \E request \in Requests : handler' = MiddlewareProcessStart(handler, request)
    /\ UNCHANGED <<system, nonMiddlewareVars>>

MiddlewareNext ==
    /\ handler.pc = "idle"
    /\ \E request \in Requests : handler' = MiddlewareNextStart(handler, request)
    /\ UNCHANGED <<system, nonMiddlewareVars>>

\* service.route returns a route.
RouteReturn ==
    /\ handler.pc = "routing"
    /\ \E route \in Routes : handler' = InvokeResponder(handler, route)
    /\ UNCHANGED <<system, nonMiddlewareVars>>

\* service.route raises.
RouteRaise ==
    /\ handler.pc = "routing"
    /\ handler' = HandlerRaise(handler, "RouteError")
    /\ UNCHANGED <<system, nonMiddlewareVars>>

\* The responder returns a reply.
ResponderReturn ==
    /\ handler.pc = "responding"
    /\ \E reply \in Replies : handler' = HandlerReturn(handler, reply)
    /\ UNCHANGED <<system, nonMiddlewareVars>>

\* The responder raises.
ResponderRaise ==
    /\ handler.pc = "responding"
    /\ handler' = HandlerRaise(handler, "ResponderError")
    /\ UNCHANGED <<system, nonMiddlewareVars>>

\* The caller takes the outcome.
HandlerFinish ==
    /\ handler.pc = "done"
    /\ handler' = IdleHandler
    /\ UNCHANGED <<system, nonMiddlewareVars>>

----------------------------------------------------------------------------
(* SystemMiddleware *)

Factories == {"factoryA", "factoryB"}

\* No SystemMiddleware object has been asked for.
NoSystem ==
    [asked |-> FALSE, constructed |-> FALSE, attrs |-> {}, factory |-> "none",
     error |-> "none", processed |-> "none", processError |-> "none",
     factoryCalls |-> <<>>]

\* SystemMiddleware.__init__(service, factory=f): the factory is stored under
\* the private name, then `super.__init__(*args, **kwargs)` is evaluated:
\* `super` is the builtin type there, and its __init__ slot called with the
\* service raises TypeError, which leaves __init__ and the constructor call.
SystemInit(factory) ==
    [NoSystem EXCEPT !.asked = TRUE, !.attrs = {"_SystemMiddleware__factory"},
                     !.factory = factory, !.error = "TypeError"]

\* SystemMiddleware.process(request) on an object: `self.factory` is looked
\* up first; no attribute of that name exists (the factory is stored as
\* _SystemMiddleware__factory), so the lookup raises AttributeError before
\* the factory or next is called.
SystemProcessResult(sys, request) ==
    IF "factory" \in sys.attrs
    THEN [sys EXCEPT !.processed = request,
                     !.factoryCalls = Append(@, <<"None", "next">>)]
    ELSE [sys EXCEPT !.processed = request, !.processError = "AttributeError"]

\* SystemMiddleware(service, factory=f)
SystemConstruct ==
    /\ ~system.asked
    /\ \E factory \in Factories : system' = SystemInit(factory)
    /\ UNCHANGED <<handler, nonMiddlewareVars>>

\* process(request) on the object __init__ was running on when it raised
\* (all a caller can get hold of: the constructor call returned nothing).
SystemProcess ==
    /\ system.asked
    /\ system.processed = "none"
    /\ \E request \in Requests : system' = SystemProcessResult(system, request)
    /\ UNCHANGED <<handler, nonMiddlewareVars>>

NextMiddleware ==
    \/ MiddlewareProcess
    \/ MiddlewareNext
    \/ RouteReturn
    \/ RouteRaise
    \/ ResponderReturn
    \/ ResponderRaise
    \/ HandlerFinish
    \/ SystemConstruct
    \/ SystemProcess

----------------------------------------------------------------------------
(* Binding *)

\* Constructor arguments: a responder, an optional path and an optional list
\* of methods; an argument left out is None.
Paths == {"/a", "/b"}
MethodNames == {"GET", "POST"}
RECURSIVE SeqsUpTo(_, _)
SeqsUpTo(S, n) ==
    IF n = 0 THEN {<<>>}
    ELSE LET shorter == SeqsUpTo(S, n - 1)
         IN shorter \cup {Append(q, x) : q \in {t \in shorter : Len(t) = n - 1}, x \in S}
MethodLists == SeqsUpTo(MethodNames, MaxMethods - 1)
NoArg == [given |-> FALSE, value |-> "None", items |-> <<>>]
PathArg(path) == [given |-> TRUE, value |-> path, items |-> <<>>]
MethodsArg(methods) == [given |-> TRUE, value |-> "list", items |-> methods]

\* What the properties path, methods and responder return.
Observed(b, list) == [path |-> b.path, methods |-> list, responder |-> b.responder]

NoBinding ==
    [constructed |-> FALSE, path |-> "", responder |-> "none", shared |-> FALSE,
     attrError |-> "none", initial |-> [path |-> "", methods |-> <<>>, responder |-> "none"]]

\* Binding.__init__: path defaults to '' and methods to a new empty list;
\* a list that is given is stored as it is, not copied, so the caller that
\* supplied it shares the list object with the binding.
BindingInit(responder, path, methods) ==
    LET p == IF path.given THEN path.value ELSE ""
        l == IF methods.given THEN methods.items ELSE <<>>
    IN [constructed |-> TRUE, path |-> p, responder |-> responder,
        shared |-> methods.given, attrError |-> "none",
        initial |-> [path |-> p, methods |-> l, responder |-> responder]]

\* list.append on the list object.
ListAppend(list, method) == Append(list, method)

\* Binding(responder, path=..., methods=...)
BindingConstruct ==
    /\ ~binding.constructed
    /\ \E responder \in Responders,
          path \in {NoArg} \cup {PathArg(x) : x \in Paths},
          methods \in {NoArg} \cup {MethodsArg(l) : l \in MethodLists} :
         /\ binding' = BindingInit(responder, path, methods)
         /\ methodsList' = binding'.initial.methods
    /\ UNCHANGED nonBindingVars

\* The code that supplied the methods list appends to its list.
SupplierAppend ==
    /\ binding.constructed /\ binding.shared
    /\ Len(methodsList) < MaxMethods
    /\ \E method \in MethodNames : methodsList' = ListAppend(methodsList, method)
    /\ UNCHANGED <<binding, nonBindingVars>>

\* A holder of the binding runs binding.methods.append(method).
HolderAppend ==
    /\ binding.constructed
    /\ Len(methodsList) < MaxMethods
    /\ \E method \in MethodNames : methodsList' = ListAppend(methodsList, method)
    /\ UNCHANGED <<binding, nonBindingVars>>

\* A holder assigns to binding.path, binding.methods or binding.responder:
\* the properties have no setter, the assignment raises AttributeError.
HolderSetAttr ==
    /\ binding.constructed
    /\ binding.attrError = "none"
    /\ binding' = [binding EXCEPT !.attrError = "AttributeError"]
    /\ UNCHANGED <<methodsList, nonBindingVars>>

NextBinding ==
    \/ BindingConstruct
    \/ SupplierAppend
    \/ HolderAppend
    \/ HolderSetAttr

----------------------------------------------------------------------------
(* Initial state *)

Init ==
    /\ middlewares = <<>>
    /\ calls = [c \in Calls |-> IdleCall]
    /\ chain = <<>>
    /\ listenerLog = <<>>
    /\ addCalls = 0
    /\ lastOp = NoOp
    /\ lastAdd = NoAdd
    /\ handler = IdleHandler
    /\ system = NoSystem
    /\ binding = NoBinding
    /\ methodsList = <<>>

----------------------------------------------------------------------------
(* Processor.add_middleware *)

\* Attributes of a `source` object: Middleware subclasses, other classes and
\* values that are no classes.
Attr(isType, isMw, cls) == [isType |-> isType, isMiddleware |-> isMw, cls |-> cls]
Attributes ==
    {Attr(TRUE, TRUE, t) : t \in Classes}
      \cup {Attr(TRUE, FALSE, "Other"), Attr(FALSE, FALSE, "Other")}

\* vars(source).values(), in each order the attributes may be yielded in
Sources == {<<>>} \cup {<<a>> : a \in Attributes}
           \cup {<<a, b>> : a \in Attributes, b \in Attributes}

\* Faulty variant: each new instance is put at the front of the list.
RECURSIVE AppendAllFront(_, _)
AppendAllFront(mws, types) ==
    IF types = <<>> THEN mws
    ELSE AppendAllFront(<<NewMiddleware(Head(types))>> \o mws, Tail(types))

\* Faulty variant: a class that already has an instance in the list is skipped.
RECURSIVE AppendAllOnce(_, _)
AppendAllOnce(mws, types) ==
    IF types = <<>> THEN mws
    ELSE IF \E k \in 1 .. Len(mws) : mws[k].cls = Head(types)
         THEN AppendAllOnce(mws, Tail(types))
         ELSE AppendAllOnce(Append(mws, NewMiddleware(Head(types))), Tail(types))

\* for middleware in middlewares: self.middlewares.append(middleware(self.service))
RECURSIVE AppendAll(_, _)
AppendAll(mws, types) ==
    IF types = <<>> THEN mws
    ELSE AppendAll(Append(mws, NewMiddleware(Head(types))), Tail(types))

\* Faulty variant: the issubclass test is missing.
RECURSIVE AppendSourceAnyClass(_, _)
AppendSourceAnyClass(mws, attrs) ==
    IF attrs = <<>> THEN mws
    ELSE IF Head(attrs).isType
         THEN AppendSourceAnyClass(AppendAll(mws, <<Head(attrs).cls>>), Tail(attrs))
         ELSE AppendSourceAnyClass(mws, Tail(attrs))

\* for middleware in vars(source).values(): if isinstance(middleware, type):
\*     if issubclass(middleware, Middleware): self.add_middleware(middleware)
RECURSIVE AppendSource(_, _)
AppendSource(mws, attrs) ==
    IF attrs = <<>> THEN mws
    ELSE IF Head(attrs).isType /\ Head(attrs).isMiddleware
         THEN AppendSource(AppendAll(mws, <<Head(attrs).cls>>), Tail(attrs))
         ELSE AppendSource(mws, Tail(attrs))

AddMiddlewareResult(mws, types, hasSource, attrs) ==
    IF hasSource THEN AppendSource(AppendAll(mws, types), attrs)
    ELSE AppendAll(mws, types)

TypeArgs == {<<>>} \cup {<<t>> : t \in Classes} \cup {<<t, u>> : t \in Classes, u \in Classes}

AddMiddleware ==
    /\ \A c \in Calls : calls[c].pc \notin {"loop", "done"}
    /\ \E types \in TypeArgs, hasSource \in BOOLEAN, attrs \in Sources :
         /\ hasSource \/ attrs = <<>>
         /\ LET new == AddMiddlewareResult(middlewares, types, hasSource, attrs) IN
              /\ Len(new) <= MaxMiddlewares
              /\ middlewares' = new
    /\ UNCHANGED <<calls, nonProcessorVars>>

\* add_middleware during configuration, with its arguments kept for inspection.
Register ==
    /\ \E types \in TypeArgs, hasSource \in BOOLEAN, attrs \in Sources :
         /\ hasSource \/ attrs = <<>>
         /\ LET new == AddMiddlewareResult(middlewares, types, hasSource, attrs) IN
              /\ Len(new) <= MaxMiddlewares
              /\ middlewares' = new
         /\ lastAdd' = AddRecord(types, hasSource, attrs, middlewares)
    /\ UNCHANGED <<calls, chainVars, middlewareVars, bindingVars>>

NextRegister == Register

----------------------------------------------------------------------------
(* Processor.process_request *)

ProcessRequest(c) ==
    /\ CanStart(c)
    /\ ThreadFree
    /\ calls' = [calls EXCEPT ![c] =
                    StartCall("process_request", TheRequest, None, IterStart(middlewares))]
    /\ UNCHANGED <<middlewares, nonProcessorVars>>

ProcessRequestStep(c) ==
    LET call == calls[c] IN
    /\ call.phase = "process_request"
    /\ LoopReady(call)
    /\ calls' = [calls EXCEPT ![c] =
         IF IterHasNext(middlewares, call.i)
         THEN IF HasAttr(middlewares[call.i], "process_request")
              THEN InvokeHook(call, call.i, IterAdvance(call.i))
              ELSE SkipMiddleware(call, IterAdvance(call.i))
         ELSE Return(call, call.request)]
    /\ UNCHANGED <<middlewares, nonProcessorVars>>

----------------------------------------------------------------------------
(* Processor.process_reply *)

ProcessReply(c) ==
    /\ CanStart(c)
    /\ ThreadFree
    /\ \E kind \in {"data", "response"} :
         calls' = [calls EXCEPT ![c] =
                      StartCall("process_reply", TheRequest, Value(kind, <<>>),
                                IterStart(middlewares))]
    /\ UNCHANGED <<middlewares, nonProcessorVars>>

\* if isinstance(reply, Response): break
\* Faulty variant: the loop never breaks.
BreakLoopNever(reply) == FALSE
BreakLoop(reply) == IsResponse(reply)

\* After the loop: if not isinstance(reply, Response): raise TypeError
\* Faulty variant: the final check is missing.
ReplyResultUnchecked(call) == Return(call, call.value)
ReplyResult(call) ==
    IF ~IsResponse(call.value) THEN Raise(call, "TypeError")
    ELSE Return(call, call.value)

ProcessReplyStep(c) ==
    LET call == calls[c] IN
    /\ call.phase = "process_reply"
    /\ LoopReady(call)
    /\ calls' = [calls EXCEPT ![c] =
         IF IterHasNext(middlewares, call.i)
         THEN IF BreakLoop(call.value)
              THEN ReplyResult(call)
              ELSE IF HasAttr(middlewares[call.i], "process_data")
                   THEN InvokeHook(call, call.i, IterAdvance(call.i))
                   ELSE SkipMiddleware(call, IterAdvance(call.i))
         ELSE ReplyResult(call)]
    /\ UNCHANGED <<middlewares, nonProcessorVars>>

----------------------------------------------------------------------------
(* Processor.process_response *)

ProcessResponse(c) ==
    /\ CanStart(c)
    /\ ThreadFree
    /\ calls' = [calls EXCEPT ![c] =
                    StartCall("process_response", TheRequest, Value("response", <<>>),
                              ReversedStart(middlewares))]
    /\ UNCHANGED <<middlewares, nonProcessorVars>>

ProcessResponseStep(c) ==
    LET call == calls[c] IN
    /\ call.phase = "process_response"
    /\ LoopReady(call)
    /\ calls' = [calls EXCEPT ![c] =
         IF IterHasNext(middlewares, call.i)
         THEN IF HasAttr(middlewares[call.i], "process_response")
              THEN InvokeHook(call, call.i, ReversedAdvance(call.i))
              ELSE SkipMiddleware(call, ReversedAdvance(call.i))
         ELSE Return(call, call.value)]
    /\ UNCHANGED <<middlewares, nonProcessorVars>>

----------------------------------------------------------------------------
(* Processor.process_exception *)

ProcessException(c) ==
    /\ CanStart(c)
    /\ ThreadFree
    /\ calls' = [calls EXCEPT ![c] =
                    StartCall("process_exception", TheRequest, Value("exception", <<>>),
                              ReversedStart(middlewares))]
    /\ UNCHANGED <<middlewares, nonProcessorVars>>

ProcessExceptionStep(c) ==
    LET call == calls[c] IN
    /\ call.phase = "process_exception"
    /\ LoopReady(call)
    /\ calls' = [calls EXCEPT ![c] =
         IF IterHasNext(middlewares, call.i)
         THEN IF HasAttr(middlewares[call.i], "process_exception")
              THEN InvokeHook(call, call.i, ReversedAdvance(call.i))
              ELSE SkipMiddleware(call, ReversedAdvance(call.i))
         ELSE Return(call, call.value)]
    /\ UNCHANGED <<middlewares, nonProcessorVars>>

----------------------------------------------------------------------------
(* Middleware hooks: coroutines supplied by the application *)

\* What a hook may return: process_data hooks return either another payload
\* or a Response; the other hooks return a value of the kind they were given.
ReturnKinds(hook) ==
    CASE hook = "process_request" -> {"request"}
      [] hook = "process_data" -> {"data", "response"}
      [] hook = "process_response" -> {"response"}
      [] hook = "process_exception" -> {"exception"}

\* The value the hook of the middleware at call.cur returns: its argument,
\* marked by that middleware.
HookOutput(call, kind) == Value(kind, Append(Carried(call).log, call.cur))

\* The running hook awaits something: the event loop is free for others.
HookSuspend(c) ==
    /\ calls[c].pc = "hook"
    /\ calls' = [calls EXCEPT ![c].pc = "suspended"]
    /\ UNCHANGED <<middlewares, nonProcessorVars>>

\* The event loop resumes a suspended hook.
HookResume(c) ==
    /\ calls[c].pc = "suspended"
    /\ ThreadFree
    /\ calls' = [calls EXCEPT ![c].pc = "hook"]
    /\ UNCHANGED <<middlewares, nonProcessorVars>>

\* The hook returns a value.
HookReturn(c) ==
    /\ calls[c].pc = "hook"
    /\ \E kind \in ReturnKinds(PhaseHook(calls[c].phase)) :
         calls' = [calls EXCEPT ![c] = ResumeWithValue(calls[c], HookOutput(calls[c], kind))]
    /\ UNCHANGED <<middlewares, nonProcessorVars>>

\* The hook raises.
HookRaise(c) ==
    /\ calls[c].pc = "hook"
    /\ calls' = [calls EXCEPT ![c] = Propagate(calls[c])]
    /\ UNCHANGED <<middlewares, nonProcessorVars>>

\* The caller of a finished phase call takes its outcome.
Finish(c) ==
    /\ calls[c].pc = "done"
    /\ calls' = [calls EXCEPT ![c] = IdleCall]
    /\ UNCHANGED <<middlewares, nonProcessorVars>>

----------------------------------------------------------------------------

Next ==
    \/ AddMiddleware
    \/ \E c \in Calls : ProcessRequest(c)
    \/ \E c \in Calls : ProcessRequestStep(c)
    \/ \E c \in Calls : ProcessReply(c)
    \/ \E c \in Calls : ProcessReplyStep(c)
    \/ \E c \in Calls : ProcessResponse(c)
    \/ \E c \in Calls : ProcessResponseStep(c)
    \/ \E c \in Calls : ProcessException(c)
    \/ \E c \in Calls : ProcessExceptionStep(c)
    \/ \E c \in Calls : HookSuspend(c)
    \/ \E c \in Calls : HookResume(c)
    \/ \E c \in Calls : HookReturn(c)
    \/ \E c \in Calls : HookRaise(c)
    \/ \E c \in Calls : Finish(c)

Spec == Init /\ [][Next]_vars

SpecChain == Init /\ [][NextChain]_vars

SpecRegister == Init /\ [][NextRegister]_vars

SpecMiddleware == Init /\ [][NextMiddleware]_vars

SpecBinding == Init /\ [][NextBinding]_vars

----------------------------------------------------------------------------
(* Properties of the phase calls *)

\* Positions (in list order) of the middlewares of mws that define hook.
HookPositions(mws, hook) ==
    LET Defines(p) == hook \in ClassHooks(mws[p].cls)
    IN  SelectSeq([p \in 1 .. Len(mws) |-> p], Defines)

Reverse(seq) == [k \in 1 .. Len(seq) |-> seq[Len(seq) + 1 - k]]

Prefix(seq, n) == [k \in 1 .. n |-> seq[k]]

\* The value a hook invocation was given to work on (its last argument).
InputOf(entry) == entry.args[Len(entry.args)]

Completed(entry) == entry.out.kind \notin {"pending", "raised"}

\* The hooks named hook of the middlewares at the positions of order were
\* invoked, in that order and nothing else, each on what the one before it
\* returned, the first one on input.
Threaded(call, hook, order, input) ==
    /\ Len(call.trace) = Len(order)
    /\ \A k \in 1 .. Len(call.trace) :
         /\ call.trace[k].pos = order[k]
         /\ call.trace[k].hook = hook
         /\ InputOf(call.trace[k]) = IF k = 1 THEN input ELSE call.trace[k - 1].out

LastOut(call, input) ==
    IF call.trace = <<>> THEN input ELSE call.trace[Len(call.trace)].out

\* A finished call of phase over a middleware list that did not change
\* while the call ran.
Finished(c, phase) ==
    /\ calls[c].pc = "done"
    /\ calls[c].phase = phase
    /\ calls[c].mws0 = middlewares

\* C1: a process_request call that returns has invoked the process_request
\* hook of exactly the middlewares that define it, once each, in registration
\* order, each on the value the previous one returned (the first on the
\* original request), and returns what the last one returned (the original
\* request when there is none).
C1_RequestForward ==
    \A c \in Calls :
        Finished(c, "process_request") /\ calls[c].result = "returned" =>
            /\ Threaded(calls[c], "process_request",
                        HookPositions(middlewares, "process_request"), calls[c].inRequest)
            /\ \A k \in 1 .. Len(calls[c].trace) : Completed(calls[c].trace[k])
            /\ calls[c].ret = LastOut(calls[c], calls[c].inRequest)

C1_Witness ==
    \E c \in Calls :
        /\ Finished(c, "process_request") /\ calls[c].result = "returned"
        /\ Len(calls[c].trace) = 2

\* C2: a process_response or process_exception call that returns has invoked
\* the corresponding hook of exactly the middlewares that define it, in
\* reverse registration order, each on the value the previously invoked one
\* returned, and returns what the last invoked one returned.
C2_ResponseExceptionReverse ==
    \A c \in Calls : \A phase \in {"process_response", "process_exception"} :
        Finished(c, phase) /\ calls[c].result = "returned" =>
            /\ Threaded(calls[c], phase, Reverse(HookPositions(middlewares, phase)),
                        calls[c].inValue)
            /\ \A k \in 1 .. Len(calls[c].trace) : Completed(calls[c].trace[k])
            /\ calls[c].ret = LastOut(calls[c], calls[c].inValue)

C2_Witness ==
    \E c \in Calls :
        /\ Finished(c, "process_exception") /\ calls[c].result = "returned"
        /\ Len(calls[c].trace) = 2
        /\ calls[c].trace[1].pos = 2

C4_ReplyFinalOrTypeError ==
    \A c \in Calls :
        calls[c].pc = "done" /\ calls[c].phase = "process_reply" =>
            /\ calls[c].result = "returned" => calls[c].ret.kind = "response"
            /\ calls[c].result \in {"returned", "raised"}
            /\ calls[c].error # "HookError" =>
                   /\ calls[c].ret = (IF calls[c].result = "returned"
                                      THEN LastOut(calls[c], calls[c].inValue) ELSE None)
                   /\ LastOut(calls[c], calls[c].inValue).kind # "response" =>
                          calls[c].result = "raised" /\ calls[c].error = "TypeError"

C4_Witness ==
    \E c \in Calls :
        /\ calls[c].pc = "done" /\ calls[c].phase = "process_reply"
        /\ calls[c].error = "TypeError"
        /\ Len(calls[c].trace) >= 1
        /\ calls[c].i > Len(middlewares)

\* The hook invocations of a call that raised.
RaisedAt(call) == {k \in 1 .. Len(call.trace) : call.trace[k].out = Raised}

\* C5: in every phase, once a hook has raised the call is over with that
\* error: the raising invocation is the last one of the call, the call
\* returns no value, no hook was invoked twice and no process_exception hook
\* was invoked by a phase other than process_exception.
C5_HookErrorPropagates ==
    \A c \in Calls :
        LET call == calls[c] IN
        RaisedAt(call) # {} =>
            /\ RaisedAt(call) = {Len(call.trace)}
            /\ call.pc = "done"
            /\ call.result = "raised" /\ call.error = "HookError" /\ call.ret = None
            /\ \A j, k \in 1 .. Len(call.trace) :
                   call.trace[j].pos = call.trace[k].pos => j = k
            /\ \A k \in 1 .. Len(call.trace) :
                   call.trace[k].hook = "process_exception" =>
                       call.phase = "process_exception"

C5_Witness ==
    \E c \in Calls :
        /\ RaisedAt(calls[c]) # {}
        /\ calls[c].mws0 = middlewares
        /\ Len(calls[c].trace) < Len(HookPositions(middlewares, PhaseHook(calls[c].phase)))

Active(call) == {k \in 1 .. Len(call.trace) : call.trace[k].out = Pending}

Forward(phase) == phase \in {"process_request", "process_reply"}

\* C7: whatever the interleaving of the calls and however often hooks
\* suspend, in each call at most one hook is in progress, it is the one
\* invoked last, and the hooks of a call were invoked in the order of the
\* phase (ascending positions for the forward phases, descending ones for
\* the reverse phases).
C7_OneHookAtATime ==
    \A c \in Calls :
        LET call == calls[c] IN
        /\ Cardinality(Active(call)) <= 1
        /\ Active(call) \subseteq {Len(call.trace)}
        /\ Active(call) # {} <=> call.pc \in {"hook", "suspended"}
        /\ \A j, k \in 1 .. Len(call.trace) :
               j < k => IF Forward(call.phase)
                        THEN call.trace[j].pos < call.trace[k].pos
                        ELSE call.trace[j].pos > call.trace[k].pos

C7_Witness ==
    \E c, d \in Calls :
        /\ c # d
        /\ calls[c].pc = "suspended" /\ calls[d].pc = "suspended"
        /\ Len(calls[c].trace) = 2 /\ Len(calls[d].trace) = 2
        /\ calls[c].phase = "process_request" /\ calls[d].phase = "process_response"

----------------------------------------------------------------------------
(* Properties of the Chain *)

\* C8: after any operations on a chain of which N are add calls, the chain
\* holds N elements and the listener has been invoked N times, once per add
\* and by nothing else; the k-th invocation saw the chain with k elements,
\* the k-th added element among them, and the latest one saw the chain as
\* it is now.
C8_ListenerOncePerAdd ==
    /\ Len(chain) = addCalls
    /\ Len(listenerLog) = addCalls
    /\ \A k \in 1 .. Len(listenerLog) :
         /\ Len(listenerLog[k]) = k
         /\ \E j \in 1 .. Len(listenerLog[k]) : listenerLog[k][j].id = k
    /\ addCalls > 0 => listenerLog[addCalls] = chain
    /\ lastOp.op = "add" => Len(lastOp.before) = addCalls - 1
    /\ lastOp.op \notin {"add", "none"} => lastOp.before = chain

C8_Witness ==
    /\ addCalls = 2
    /\ Len(listenerLog) = 2
    /\ lastOp.op = "getitem_name"

\* The value sits at the 0-based position q of the chain, the elements that
\* were before position q are where they were, and those that were at
\* position q or later are one position to the right.
InsertedAt(before, after, q, value) ==
    /\ q >= 0 /\ q <= Len(before)
    /\ Len(after) = Len(before) + 1
    /\ after[q + 1] = value
    /\ \A j \in 1 .. Len(before) :
         IF j <= q THEN after[j] = before[j] ELSE after[j + 1] = before[j]

\* C9 as stated: add without place appends, and add with place=p puts the
\* value at position p, shifting the elements at p or later to the right.
C9_AsStated ==
    lastOp.op = "add" =>
        IF lastOp.hasPlace
        THEN InsertedAt(lastOp.before, chain, lastOp.place, lastOp.value)
        ELSE chain = Append(lastOp.before, lastOp.value)

\* C9 (amended): add without place appends; add with place=p, for p from 0
\* to the length of the chain, puts the value at position p, shifting the
\* elements at p or later one to the right and leaving the others; a p
\* beyond the length appends, and a negative p counts from the end of the
\* chain (position length+p), stopping at the front.
C9_AddPosition ==
    lastOp.op = "add" =>
        LET n == Len(lastOp.before)
            p == lastOp.place
        IN  IF ~lastOp.hasPlace \/ p > n
            THEN chain = Append(lastOp.before, lastOp.value)
            ELSE IF p >= 0
            THEN InsertedAt(lastOp.before, chain, p, lastOp.value)
            ELSE IF n + p >= 0
            THEN InsertedAt(lastOp.before, chain, n + p, lastOp.value)
            ELSE InsertedAt(lastOp.before, chain, 0, lastOp.value)

C9_Witness ==
    /\ lastOp.op = "add" /\ lastOp.hasPlace /\ lastOp.place = 0
    /\ chain = <<Element("b", 2), Element("a", 1)>>

\* C10: a lookup by name returns the first element in stored order whose
\* name is the key; when no element has that name it raises KeyError with
\* the key; either way the chain is as it was.
C10_LookupByName ==
    lastOp.op = "getitem_name" =>
        LET hits == {j \in 1 .. Len(chain) : chain[j].name = lastOp.key}
        IN  /\ chain = lastOp.before
            /\ hits = {} => lastOp.result.kind = "KeyError" /\ lastOp.result.arg = lastOp.key
            /\ hits # {} =>
                   /\ lastOp.result.kind = "value"
                   /\ \E j \in hits :
                          /\ \A k \in hits : j <= k
                          /\ lastOp.result.value = chain[j]

C10_Witness ==
    /\ lastOp.op = "getitem_name"
    /\ lastOp.result.kind = "value"
    /\ Cardinality({j \in 1 .. Len(chain) : chain[j].name = lastOp.key}) = 2

----------------------------------------------------------------------------
(* Properties of add_middleware *)

IsPrefix(a, b) == Len(a) <= Len(b) /\ \A k \in 1 .. Len(a) : a[k] = b[k]

\* The classes of the Middleware subclasses among the attributes, as yielded.
RECURSIVE MiddlewareAttrs(_)
MiddlewareAttrs(attrs) ==
    IF attrs = <<>> THEN <<>>
    ELSE IF Head(attrs).isType /\ Head(attrs).isMiddleware
         THEN <<Head(attrs).cls>> \o MiddlewareAttrs(Tail(attrs))
         ELSE MiddlewareAttrs(Tail(attrs))

\* Number of places of seq that hold x.
Count(seq, x) == Cardinality({k \in 1 .. Len(seq) : seq[k] = x})

ClassesOf(mws) == [k \in 1 .. Len(mws) |-> mws[k].cls]

\* C11: the middleware list only grows at its end: the list held before an
\* add_middleware call is a prefix of the list held after it, and the call
\* appends, right after that prefix, one instance of each type passed, bound
\* to the service of the Processor, in argument order.
C11_AppendOnly ==
    lastAdd.called =>
        /\ IsPrefix(lastAdd.before, middlewares)
        /\ Len(middlewares) >= Len(lastAdd.before) + Len(lastAdd.types)
        /\ \A k \in 1 .. Len(lastAdd.types) :
               middlewares[Len(lastAdd.before) + k] =
                   [cls |-> lastAdd.types[k], service |-> "service"]

C11_Witness ==
    /\ lastAdd.called
    /\ Len(lastAdd.before) = 0
    /\ lastAdd.types = <<"Inner", "Outer">>
    /\ Len(middlewares) = 2

\* C12 as stated: the middleware list holds at most one instance of each
\* Middleware subclass.
C12_AsStated ==
    \A t \in Classes : Count(ClassesOf(middlewares), t) <= 1

\* C12 (amended): a Processor holds one Middleware instance per registration:
\* every add_middleware call adds exactly one instance for each occurrence of
\* a subclass among its types and among the Middleware subclasses of its
\* source, whether or not the list already holds an instance of it.
C12_OneInstancePerRegistration ==
    lastAdd.called =>
        \A t \in Classes :
            Count(ClassesOf(middlewares), t) =
                Count(ClassesOf(lastAdd.before), t) + Count(lastAdd.types, t)
                + Count(MiddlewareAttrs(lastAdd.attrs), t)

C12_Witness ==
    /\ lastAdd.called
    /\ lastAdd.before # <<>>
    /\ \E t \in Classes : Count(ClassesOf(middlewares), t) = 2

\* C13: add_middleware with a source appends one instance for every
\* attribute of the source that is a Middleware subclass and nothing for the
\* other attributes, after the instances of the types passed explicitly.
C13_SourceRegistration ==
    lastAdd.called /\ lastAdd.hasSource =>
        LET n == Len(lastAdd.before) + Len(lastAdd.types)
            fromSource == MiddlewareAttrs(lastAdd.attrs)
        IN  /\ Len(middlewares) = n + Len(fromSource)
            /\ \A k \in 1 .. Len(lastAdd.before) : middlewares[k] = lastAdd.before[k]
            /\ \A k \in 1 .. Len(lastAdd.types) :
                   middlewares[Len(lastAdd.before) + k].cls = lastAdd.types[k]
            /\ \A t \in Classes \cup {"Other"} :
                   Count([k \in 1 .. Len(middlewares) - n |-> middlewares[n + k].cls], t)
                       = Count(fromSource, t)

C13_Witness ==
    /\ lastAdd.called /\ lastAdd.hasSource
    /\ Len(lastAdd.types) = 1
    /\ Len(lastAdd.attrs) = 2
    /\ Len(MiddlewareAttrs(lastAdd.attrs)) = 1
    /\ Len(middlewares) = 2

----------------------------------------------------------------------------
(* Further properties of the phase calls *)

TracePositions(call) == [k \in 1 .. Len(call.trace) |-> call.trace[k].pos]

\* C14: every hook a phase invokes is the hook of that phase and is defined
\* by the class of the middleware it is invoked on (middlewares without it
\* are skipped); a phase over middlewares none of which defines its hook
\* invokes nothing and carries its input through unchanged.
C14_OnlyOwnHooks ==
    \A c \in Calls :
        LET call == calls[c]
            own == CASE call.phase = "process_request" -> "process_request"
                     [] call.phase = "process_reply" -> "process_data"
                     [] call.phase = "process_response" -> "process_response"
                     [] call.phase = "process_exception" -> "process_exception"
                     [] OTHER -> "none"
            input == IF call.phase = "process_request" THEN call.inRequest
                     ELSE call.inValue
        IN  /\ \A k \in 1 .. Len(call.trace) :
                   /\ call.trace[k].hook = own
                   /\ call.trace[k].cls = middlewares[call.trace[k].pos].cls
                   /\ own \in ClassHooks(call.trace[k].cls)
            /\ call.pc = "done" /\ HookPositions(middlewares, own) = <<>> =>
                   /\ call.trace = <<>>
                   /\ (IF call.phase = "process_request" THEN call.request
                       ELSE call.value) = input
                   /\ call.result = "returned" => call.ret = input

C14_Witness ==
    \E c \in Calls :
        /\ calls[c].pc = "done" /\ calls[c].phase = "process_request"
        /\ calls[c].result = "returned"
        /\ Len(middlewares) = 2
        /\ HookPositions(middlewares, "process_request") = <<>>
        /\ calls[c].trace = <<>>

\* C16 as documented: process_reply runs the process_data hooks in reverse
\* registration order, the last registered middleware that defines
\* process_data first.
C16_AsDocumented ==
    \A c \in Calls :
        Finished(c, "process_reply") /\ calls[c].trace # <<>> =>
            LET all == HookPositions(middlewares, "process_data")
            IN  calls[c].trace[1].pos = all[Len(all)]

C20_SameRequest ==
    \A c \in Calls :
        calls[c].phase \in {"process_reply", "process_response", "process_exception"} =>
            \A k \in 1 .. Len(calls[c].trace) :
                /\ Len(calls[c].trace[k].args) = 2
                /\ calls[c].trace[k].args[1] = calls[c].inRequest
                /\ calls[c].trace[k].args[1].kind = "request"

C20_Witness ==
    \E c \in Calls :
        /\ calls[c].pc = "done" /\ calls[c].phase = "process_exception"
        /\ Len(calls[c].trace) = 2
        /\ calls[c].trace[2].args[2] # calls[c].inValue

----------------------------------------------------------------------------
(* Properties of Middleware.process / next and of SystemMiddleware *)

\* C15: whether entered through process or through next, the coroutine
\* calls route once, with the request; it invokes a responder only after
\* route has returned, once, and it is the responder of the route returned,
\* given the request and the match arguments of that route; it returns what
\* the responder returned; when route raises no responder is invoked and
\* the error is the outcome.
C15_RouteThenRespond ==
    handler.pc # "idle" =>
        /\ handler.entry \in {"process", "next"}
        /\ handler.routeCalls = <<handler.request>>
        /\ handler.pc = "routing" => handler.responderCalls = <<>>
        /\ handler.responderCalls # <<>> =>
               /\ handler.route \in Routes
               /\ handler.responderCalls =
                      <<[responder |-> handler.route.responder,
                         request |-> handler.request,
                         match |-> handler.route.match]>>
        /\ handler.result = "returned" =>
               /\ Len(handler.responderCalls) = 1
               /\ handler.reply = handler.responderOut /\ handler.reply \in Replies
        /\ handler.error = "RouteError" =>
               handler.responderCalls = <<>> /\ handler.result = "raised"
        /\ handler.pc = "done" => handler.result \in {"returned", "raised"}

C15_Witness ==
    /\ handler.pc = "done" /\ handler.entry = "process"
    /\ handler.result = "returned"
    /\ handler.route.match = "{id: 1}"

\* C18 as stated: a SystemMiddleware asked for with a service and a factory
\* is constructed, and its process calls the factory with next as the
\* downstream handler.
C18_AsStated ==
    system.asked =>
        /\ system.constructed /\ system.error = "none"
        /\ system.processed # "none" =>
               system.processError = "none" /\ Len(system.factoryCalls) = 1

----------------------------------------------------------------------------
(* Properties of Binding *)

\* C17 as stated: path is '' and methods is empty when left out, and the
\* values read from path, methods and responder of a constructed binding
\* are the ones it had when it was constructed, whatever its holders and
\* the code that supplied the constructor arguments have done since.
C17_AsStated ==
    binding.constructed => Observed(binding, methodsList) = binding.initial

====
